---- MODULE Spec2Model ----
(***************************************************************************)
(* Model of img_compress_cli.py: the quality search                        *)
(* find_best_quality_lossy, the lossless path compress_png_mvp and the     *)
(* dispatcher compress.                                                    *)
(*                                                                         *)
(* A byte buffer is represented by its length in bytes: len() is the only  *)
(* operation the program applies to an encoder output.  A float is         *)
(* represented by an exact fraction <<numerator, denominator>>.            *)
(*                                                                         *)
(* The image is a deterministic encoder: img maps a quality to the buffer  *)
(* the encoder produces for it.  img holds the encodings that are fixed so *)
(* far; an encoding that is not yet fixed is chosen when the encoder is    *)
(* first called with that quality and is the same at every later call.     *)
(***************************************************************************)
EXTENDS Integers, Sequences, FiniteSets, TLC

VARIABLES
    pc,          \* position in the program
    out_fmt,     \* args.out_fmt
    target_kb,   \* args.target_kb
    q_min,       \* args.q_min
    q_max,       \* args.q_max
    img,         \* quality -> length of encode_to_bytes(img, out_fmt, quality)
    png,         \* length of encode_to_bytes(img, "png")
    lo, hi,      \* find_best_quality_lossy locals
    best_b, best_q,
    iterations,
    calls,       \* the qualities handed to encode_to_bytes, in call order
    ret,         \* the tuple find_best_quality_lossy returns
    out_bytes,   \* compress: returned bytes
    meta         \* compress: returned meta

vars == <<pc, out_fmt, target_kb, q_min, q_max, img, png, lo, hi, best_b, best_q,
          iterations, calls, ret, out_bytes, meta>>

----------------------------------------------------------------------------
(* Bounds of the small input space                                         *)
MaxQ == 4        \* qualities 0..MaxQ
MaxKB == 1       \* budgets -1..MaxKB, buffers up to MaxKB KB + 1 byte

(* Program constants                                                       *)
BytesPerKB == 1024
DefaultQMin == 25
DefaultQMax == 95

Formats == {"jpg", "webp", "png"}
Lossy == {"jpg", "webp"}

(* Buffer lengths around every whole-KB boundary                           *)
Sizes == {BytesPerKB * k + d : k \in 0..MaxKB, d \in {0, 1}}
PngSizes == {BytesPerKB * k + d : k \in 0..MaxKB, d \in 0..6}
Targets == -1..MaxKB

(* Budgets tried with the default quality bounds                           *)
DefaultTargets == {10, 30, 50}

Min(a, b) == IF a <= b THEN a ELSE b
Max(a, b) == IF a >= b THEN a ELSE b

----------------------------------------------------------------------------
(* Helpers                                                                 *)

(* size_kb: len(data) / 1024.0, exact                                      *)
size_kb(data) == <<data, BytesPerKB>>

(* round(x, 2): nearest hundredth, ties to even; x = <<n, d>>              *)
round2(x) ==
    LET h == x[1] * 100
        f == h \div x[2]
        r == h % x[2]
    IN  IF 2 * r < x[2] THEN <<f, 100>>
        ELSE IF 2 * r > x[2] THEN <<f + 1, 100>>
        ELSE IF f % 2 = 0 THEN <<f, 100>> ELSE <<f + 1, 100>>

(* s <= target_kb, the test of lines 112 and 130; before it two faulty     *)
(* variants: a strict comparison, and bytes compared with kilobytes        *)
fitsStrict(s, t) == s[1] < t * s[2]
fitsUnits(s, t) == s[1] * BytesPerKB <= t * s[2]
fits(s, t) == s[1] <= t * s[2]

(* s_min > target_kb, the test of line 117; before it two faulty variants: *)
(* a non-strict comparison, and kilobytes compared with bytes              *)
exceedsOrEqual(s, t) == s[1] >= t * s[2]
exceedsUnits(s, t) == s[1] > t * BytesPerKB * s[2]
exceeds(s, t) == s[1] > t * s[2]

(* final <= target_kb, the test of line 173                                *)
pngFits(final, t) == final[1] <= t * final[2]

(* mid = (lo + hi) // 2; before it a faulty variant that scans linearly    *)
MidLinear(l, h) == l
Mid(l, h) == (l + h) \div 2

(* lo, hi = q_min, q_max; before it a faulty variant that starts one below *)
SearchRangeWide == <<q_min - 1, q_max>>
SearchRange == <<q_min, q_max>>

(* The buffers encode_to_bytes may return for quality q: the fixed one, or *)
(* for an encoding not fixed yet an empty buffer, one exactly at the       *)
(* budget or one a byte over it                                            *)
Fresh == {n \in {0, BytesPerKB * target_kb, BytesPerKB * target_kb + 1} : n >= 0}
Encodings(q) == IF q \in DOMAIN img THEN {img[q]} ELSE Fresh
Encoded(q, b) == IF q \in DOMAIN img THEN img ELSE img @@ (q :> b)

NoRet == [bytes |-> 0, quality |-> 0, iterations |-> 0, status |-> ""]
NoMeta == [status |-> ""]

----------------------------------------------------------------------------
(* Initial states                                                          *)

InitLocals ==
    /\ pc = "start"
    /\ lo = 0 /\ hi = 0 /\ best_b = 0 /\ best_q = 0 /\ iterations = 0
    /\ calls = <<>>
    /\ ret = NoRet
    /\ out_bytes = 0
    /\ meta = NoMeta

(* Every image over small quality bounds                                   *)
Init ==
    /\ InitLocals
    /\ out_fmt \in Formats
    /\ target_kb \in Targets
    /\ \/ /\ out_fmt \in Lossy
          /\ q_min \in 0..MaxQ
          /\ q_max \in 0..MaxQ
          /\ img \in [Min(q_min, q_max)..Max(q_min, q_max) -> Sizes]
          /\ png = 0
       \/ /\ out_fmt = "png"
          /\ q_min = DefaultQMin
          /\ q_max = DefaultQMax
          /\ img = [q \in {} |-> 0]
          /\ png \in PngSizes

(* Size curves that are linear in quality and meet 30 KB at quality c      *)
Decreasing(c, s) == [q \in DefaultQMin..DefaultQMax |-> 30 * BytesPerKB + s * (c - q)]
Increasing(c, s) == [q \in DefaultQMin..DefaultQMax |-> 30 * BytesPerKB + s * (q - c)]
Curves == {Decreasing(c, s) : c \in 57..63, s \in {1, 100}}
              \cup {Increasing(c, s) : c \in 57..63, s \in {1, 100}}

(* The default quality bounds, --q-min 25 --q-max 95                       *)
InitDefault ==
    /\ InitLocals
    /\ out_fmt \in Formats
    /\ target_kb \in DefaultTargets
    /\ q_min = DefaultQMin
    /\ q_max = DefaultQMax
    /\ \/ /\ out_fmt \in Lossy
          /\ img \in Curves \cup {[q \in {} |-> 0]}
          /\ png = 0
       \/ /\ out_fmt = "png"
          /\ img = [q \in {} |-> 0]
          /\ png \in {BytesPerKB * k + d : k \in DefaultTargets, d \in 0..6}

----------------------------------------------------------------------------
(* compress: dispatch by output format                                     *)

CompressLossy ==
    /\ pc = "start"
    /\ out_fmt \in Lossy
    /\ pc' = "probe_max"
    /\ UNCHANGED <<out_fmt, target_kb, q_min, q_max, img, png, lo, hi, best_b, best_q,
                   iterations, calls, ret, out_bytes, meta>>

(* compress_png_mvp                                                        *)
CompressPng ==
    /\ pc = "start"
    /\ out_fmt = "png"
    /\ LET final == round2(size_kb(png))
       IN  /\ out_bytes' = png
           /\ meta' = [status |-> IF pngFits(final, target_kb) THEN "ok" ELSE "png_over_target",
                       out_fmt |-> "png",
                       quality |-> "None",
                       iterations |-> 0,
                       final_kb |-> final,
                       target_kb |-> target_kb]
    /\ pc' = "done"
    /\ UNCHANGED <<out_fmt, target_kb, q_min, q_max, img, png, lo, hi, best_b, best_q,
                   iterations, calls, ret>>

----------------------------------------------------------------------------
(* find_best_quality_lossy                                                 *)

(* Probe q_max                                                             *)
ProbeMax ==
    /\ pc = "probe_max"
    /\ \E b_max \in Encodings(q_max) :
          /\ img' = Encoded(q_max, b_max)
          /\ calls' = Append(calls, q_max)
          /\ IF fits(size_kb(b_max), target_kb)
             THEN /\ ret' = [bytes |-> b_max, quality |-> q_max, iterations |-> 1,
                             status |-> "already_ok_at_qmax"]
                  /\ pc' = "returned"
             ELSE /\ ret' = ret
                  /\ pc' = "probe_min"
    /\ UNCHANGED <<out_fmt, target_kb, q_min, q_max, png, lo, hi, best_b, best_q,
                   iterations, out_bytes, meta>>

(* Probe q_min, then set up the binary search                              *)
ProbeMin ==
    /\ pc = "probe_min"
    /\ \E b_min \in Encodings(q_min) :
          /\ img' = Encoded(q_min, b_min)
          /\ calls' = Append(calls, q_min)
          /\ IF exceeds(size_kb(b_min), target_kb)
             THEN /\ ret' = [bytes |-> b_min, quality |-> q_min, iterations |-> 2,
                             status |-> "no_solution_within_bounds"]
                  /\ pc' = "returned"
                  /\ UNCHANGED <<lo, hi, best_b, best_q, iterations>>
             ELSE /\ lo' = SearchRange[1]
                  /\ hi' = SearchRange[2]
                  /\ best_b' = b_min
                  /\ best_q' = q_min
                  /\ iterations' = 2
                  /\ ret' = ret
                  /\ pc' = "loop"
    /\ UNCHANGED <<out_fmt, target_kb, q_min, q_max, png, out_bytes, meta>>

(* One pass of the while loop body                                         *)
Bisect ==
    /\ pc = "loop"
    /\ lo <= hi
    /\ LET mid == Mid(lo, hi)
       IN  \E b_mid \in Encodings(mid) :
              /\ img' = Encoded(mid, b_mid)
              /\ calls' = Append(calls, mid)
              /\ iterations' = iterations + 1
              /\ IF fits(size_kb(b_mid), target_kb)
                 THEN /\ best_b' = b_mid
                      /\ best_q' = mid
                      /\ lo' = mid + 1
                      /\ hi' = hi
                 ELSE /\ hi' = mid - 1
                      /\ UNCHANGED <<lo, best_b, best_q>>
    /\ UNCHANGED <<pc, out_fmt, target_kb, q_min, q_max, png, ret, out_bytes, meta>>

(* The loop condition fails: return the running best                       *)
LoopExit ==
    /\ pc = "loop"
    /\ lo > hi
    /\ ret' = [bytes |-> best_b, quality |-> best_q, iterations |-> iterations,
               status |-> "ok"]
    /\ pc' = "returned"
    /\ UNCHANGED <<out_fmt, target_kb, q_min, q_max, img, png, lo, hi, best_b, best_q,
                   iterations, calls, out_bytes, meta>>

(* compress: package the search result                                     *)
Package ==
    /\ pc = "returned"
    /\ out_bytes' = ret.bytes
    /\ meta' = [status |-> ret.status,
                out_fmt |-> out_fmt,
                quality |-> ret.quality,
                iterations |-> ret.iterations,
                final_kb |-> round2(size_kb(ret.bytes)),
                target_kb |-> target_kb,
                q_min |-> q_min,
                q_max |-> q_max]
    /\ pc' = "done"
    /\ UNCHANGED <<out_fmt, target_kb, q_min, q_max, img, png, lo, hi, best_b, best_q,
                   iterations, calls, ret>>

Next ==
    \/ CompressLossy
    \/ CompressPng
    \/ ProbeMax
    \/ ProbeMin
    \/ Bisect
    \/ LoopExit
    \/ Package

Spec == Init /\ [][Next]_vars
SpecDefault == InitDefault /\ [][Next]_vars

----------------------------------------------------------------------------
(* Vocabulary of the properties                                            *)

Budget == BytesPerKB * target_kb
InSearch == out_fmt \in Lossy
Returned == InSearch /\ pc \in {"returned", "done"}
Range == q_min..q_max
Total == \A q \in Range : q \in DOMAIN img
Monotone == \A p, q \in DOMAIN img : p <= q => img[p] <= img[q]

RECURSIVE CeilLog2From(_, _, _)
CeilLog2From(n, k, pow) == IF pow >= n THEN k ELSE CeilLog2From(n, k + 1, 2 * pow)
CeilLog2(n) == CeilLog2From(n, 0, 1)

----------------------------------------------------------------------------
(* C1 as stated: with q_min <= q_max and a size function non-decreasing in *)
(* quality, the returned quality r has size(r) <= target_kb and            *)
(* (r = q_max or size(r+1) > target_kb).                                   *)
C1_AsStated ==
    (Returned /\ q_min <= q_max /\ Total /\ Monotone)
        => /\ img[ret.quality] <= Budget
           /\ ret.quality = q_max \/ img[ret.quality + 1] > Budget

(* C1 amended: the same, and r is the highest quality within the bounds    *)
(* that fits, whenever the status is not no_solution_within_bounds.        *)
C1_Convergence ==
    (Returned /\ q_min <= q_max /\ Total /\ Monotone
              /\ ret.status # "no_solution_within_bounds")
        => /\ img[ret.quality] <= Budget
           /\ ret.quality = q_max \/ img[ret.quality + 1] > Budget
           /\ \A q \in Range : img[q] <= Budget => q <= ret.quality

C1_Witness ==
    /\ pc = "returned" /\ Total /\ Monotone
    /\ ret.status = "ok"
    /\ q_min < ret.quality /\ ret.quality < q_max
    /\ img[ret.quality] = Budget

(* C2: with q_min <= q_max, the number of encode calls of one search, and  *)
(* the iteration count it returns, is at most                              *)
(* 2 + ceil(log2(q_max - q_min + 1)).                                      *)
C2_IterationBound ==
    (Returned /\ q_min <= q_max)
        => /\ Len(calls) <= 2 + CeilLog2(q_max - q_min + 1)
           /\ ret.iterations <= 2 + CeilLog2(q_max - q_min + 1)

(* C3 as stated: with the default bounds 25..95 at most 6 bisection        *)
(* encodes follow the two probes, at most 8 encode calls in total.         *)
C3_AsStated ==
    (Returned /\ q_min = DefaultQMin /\ q_max = DefaultQMax)
        => /\ Len(calls) <= 8
           /\ ret.iterations <= 8

(* C3 amended: with the default bounds 25..95 at most 7 bisection encodes  *)
(* follow the two probes, at most 9 encode calls in total.                 *)
C3_DefaultBound ==
    (InSearch /\ q_min = DefaultQMin /\ q_max = DefaultQMax)
        => /\ Len(calls) <= 9
           /\ iterations <= 9
           /\ ret.iterations <= 9

C3_Witness ==
    /\ pc = "returned" /\ q_min = DefaultQMin /\ q_max = DefaultQMax
    /\ Len(calls) = 9 /\ ret.iterations = 9

(* Scenario C: the default bounds, a 30 KB budget and a size curve that is *)
(* strictly decreasing in quality and crosses the budget near quality 60   *)
StrictlyDecreasing ==
    /\ DOMAIN img = Range
    /\ \A q \in Range : q < q_max => img[q] > img[q + 1]
ScenarioC ==
    /\ Returned /\ q_min = DefaultQMin /\ q_max = DefaultQMax /\ target_kb = 30
    /\ StrictlyDecreasing
    /\ \E q \in 55..65 : img[q] > Budget /\ img[q + 1] <= Budget
HighestFitting(best) ==
    /\ best \in Range /\ img[best] <= Budget
    /\ \A q \in Range : img[q] <= Budget => q <= best

(* C4 as stated: in scenario C the status is "ok" and the returned quality *)
(* is the highest one in 25..95 whose size is at most 30 KB.               *)
C4_AsStated ==
    ScenarioC => ret.status = "ok" /\ HighestFitting(ret.quality)

(* C4 amended: in scenario C the status is "already_ok_at_qmax" after one  *)
(* encode, and the returned quality, 95, is the highest one in 25..95      *)
(* whose size is at most 30 KB.                                            *)
C4_ScenarioC ==
    ScenarioC => /\ ret.status = "already_ok_at_qmax"
                 /\ ret.iterations = 1
                 /\ ret.quality = DefaultQMax
                 /\ HighestFitting(ret.quality)

C4_Witness == ScenarioC /\ pc = "done" /\ meta.quality = DefaultQMax

(* C5: a PNG request reports "ok" exactly when the unrounded size of the   *)
(* returned bytes is at most target_kb, and "png_over_target" otherwise.   *)
C5_PngStatus ==
    (pc = "done" /\ out_fmt = "png")
        => /\ meta.status = "ok" <=> out_bytes <= Budget
           /\ meta.status = "png_over_target" <=> out_bytes > Budget

(* C6: when the encoding at q_max fits the budget the search returns at    *)
(* once: status "already_ok_at_qmax", quality q_max, iterations 1, the     *)
(* bytes of that encoding, after exactly one encode call.                  *)
C6_AlreadyOkAtMax ==
    (InSearch /\ pc \notin {"start", "probe_max"} /\ img[q_max] <= Budget)
        => /\ pc \in {"returned", "done"}
           /\ ret = [bytes |-> img[q_max], quality |-> q_max, iterations |-> 1,
                     status |-> "already_ok_at_qmax"]
           /\ calls = <<q_max>>

C6_Witness ==
    /\ pc = "returned" /\ q_min < q_max
    /\ img[q_max] = Budget /\ img[q_min] > Budget
    /\ ret.status = "already_ok_at_qmax"

(* C7: when the encodings at q_max and at q_min both exceed the budget the *)
(* search returns normally with status "no_solution_within_bounds",        *)
(* quality q_min, iterations 2 and the bytes of the q_min encoding, after  *)
(* exactly two encode calls and no bisection.                              *)
C7_NoSolution ==
    (InSearch /\ pc \notin {"start", "probe_max", "probe_min"}
              /\ img[q_max] > Budget /\ img[q_min] > Budget)
        => /\ pc \in {"returned", "done"}
           /\ ret = [bytes |-> img[q_min], quality |-> q_min, iterations |-> 2,
                     status |-> "no_solution_within_bounds"]
           /\ calls = <<q_max, q_min>>
           /\ pc = "done" => meta.status = "no_solution_within_bounds"

C7_Witness ==
    /\ InSearch /\ pc = "done" /\ q_min < q_max /\ target_kb > 0
    /\ img[q_min] > Budget /\ img[q_max] > Budget
    /\ \E q \in Range : img[q] <= Budget
    /\ meta.status = "no_solution_within_bounds" /\ meta.quality = q_min

(* C8: with q_min <= q_max, one search hands each quality to the encoder   *)
(* at most once.                                                           *)
C8_NoRedundantEncodes ==
    (InSearch /\ q_min <= q_max)
        => \A i, j \in 1..Len(calls) : i # j => calls[i] # calls[j]

(* C9: with q_min <= q_max the search never leaves the quality range:      *)
(* q_min <= lo and hi <= q_max in the loop, every encoded quality and the  *)
(* returned quality lie in q_min..q_max.                                   *)
C9_RangeNotWidened ==
    (InSearch /\ q_min <= q_max)
        => /\ (pc = "loop" \/ ret.status = "ok") => (q_min <= lo /\ hi <= q_max)
           /\ \A i \in 1..Len(calls) : calls[i] \in Range
           /\ Returned => ret.quality \in Range

C9_Witness ==
    /\ pc = "loop" /\ q_min < lo /\ lo <= hi /\ hi < q_max

(* C10: for all bounds (also q_min > q_max), budgets (also zero and        *)
(* negative) and size functions, the returned bytes are the encoding at    *)
(* the returned quality, the status is "ok" or "already_ok_at_qmax"        *)
(* exactly when they fit the budget and "no_solution_within_bounds"        *)
(* exactly when they exceed it, and the running best always fits.          *)
C10_StatusSound ==
    /\ (InSearch /\ pc = "loop")
          => best_q \in DOMAIN img /\ best_b = img[best_q] /\ best_b <= Budget
    /\ Returned
          => /\ ret.quality \in DOMAIN img
             /\ ret.bytes = img[ret.quality]
             /\ ret.status \in {"ok", "already_ok_at_qmax"} <=> ret.bytes <= Budget
             /\ ret.status = "no_solution_within_bounds" <=> ret.bytes > Budget
    /\ (InSearch /\ pc = "done")
          => /\ out_bytes = ret.bytes
             /\ meta.status = ret.status
             /\ meta.quality = ret.quality

C10_Witness ==
    /\ pc = "done" /\ InSearch
    /\ q_min > q_max
    /\ target_kb <= 0
    /\ ~Monotone
    /\ meta.status = "ok"

====
